---- MODULE Spec2Model ----
(***************************************************************************)
(* A model of llm-generator-go: main / generateDocs (the pipeline),        *)
(* RepoHandler, ContentProcessor, EmbeddingService and DocFormatter.       *)
(*                                                                         *)
(* Go strings are modelled as sequences of one-character strings, so that  *)
(* strings.HasPrefix, strings.HasSuffix, filepath.Base and the regular     *)
(* expressions of content_processor.go are computed character by character.*)
(***************************************************************************)
EXTENDS Integers, Sequences, FiniteSets, TLC

VARIABLES
    pc,            \* position of the process: "main", "clone", "select", "process", "embed", "format", "done", "exit"
    apiKey,        \* os.Getenv("OPENAI_API_KEY") # ""
    repoFlag,      \* --repo was given on the command line
    repoURL,       \* value of --repo
    includeDirs,   \* value of --include-dirs
    excludeDirs,   \* value of --exclude-dirs
    fileTypes,     \* value of --file-types
    tempDir,       \* RepoHandler.tempDir
    tempDirsMade,  \* number of temporary directories os.MkdirTemp has created
    repoPath,      \* the path CloneRepo returned
    disk,          \* what lies under the temporary directory: [nodes, data, unreadable]
    files,         \* the paths GetFiles returned
    idx,           \* loop index of the ProcessFile loop of generateDocs (1-based)
    contents,      \* generateDocs' contents slice (shared backing array with CreateEmbeddings)
    indexed,       \* the value CreateEmbeddings returned: [nil, recs]
    requests,      \* log of the remote embedding requests issued and their answers: [i, j, input, ok, data]
    calls,         \* number of CreateEmbeddings calls made
    output,        \* the output file: [written, doc]
    err,           \* which fatal error was printed: "" when none
    exitCode       \* process exit code, -1 while running

vars == <<pc, apiKey, repoFlag, repoURL, includeDirs, excludeDirs, fileTypes,
          tempDir, tempDirsMade, repoPath, disk, files, idx, contents, indexed,
          requests, calls, output, err, exitCode>>

----------------------------------------------------------------------------
(* package strings / path/filepath helpers, on sequences of characters *)

NL == "\n"

\* strings.HasPrefix
HasPrefix(s, p) == Len(s) >= Len(p) /\ SubSeq(s, 1, Len(p)) = p

\* strings.HasSuffix
HasSuffix(s, p) == Len(s) >= Len(p) /\ SubSeq(s, Len(s) - Len(p) + 1, Len(s)) = p

\* strings.TrimSuffix
TrimSuffix(s, p) == IF HasSuffix(s, p) THEN SubSeq(s, 1, Len(s) - Len(p)) ELSE s

\* strings.TrimPrefix
TrimPrefix(s, p) == IF HasPrefix(s, p) THEN SubSeq(s, Len(p) + 1, Len(s)) ELSE s

\* positions of character c in s
Positions(s, c) == {i \in 1..Len(s) : s[i] = c}

SetMax(S) == CHOOSE x \in S : \A y \in S : y <= x
SetMin(S) == CHOOSE x \in S : \A y \in S : x <= y

\* the text after the last occurrence of c (the whole of s when c does not occur)
AfterLast(s, c) ==
    IF Positions(s, c) = {} THEN s
    ELSE SubSeq(s, SetMax(Positions(s, c)) + 1, Len(s))

\* strings.Split(s, sep)[len-1] and the number of parts, for a one-character sep
SplitCount(s, c) == Cardinality(Positions(s, c)) + 1

\* unicode.IsSpace restricted to the characters of the model
IsSpace(c) == c \in {" ", "\t", NL, "\r", "\f"}

\* strings.TrimSpace
RECURSIVE TrimLeft(_)
TrimLeft(s) == IF s # <<>> /\ IsSpace(Head(s)) THEN TrimLeft(Tail(s)) ELSE s
RECURSIVE TrimRight(_)
TrimRight(s) ==
    IF s # <<>> /\ IsSpace(s[Len(s)]) THEN TrimRight(SubSeq(s, 1, Len(s) - 1)) ELSE s
TrimSpace(s) == TrimRight(TrimLeft(s))

\* filepath.Base: trailing separators removed, then the last element
RECURSIVE StripSlashes(_)
StripSlashes(s) ==
    IF s # <<>> /\ s[Len(s)] = "/" THEN StripSlashes(SubSeq(s, 1, Len(s) - 1)) ELSE s
Base(p) ==
    IF p = <<>> THEN <<".">>
    ELSE IF StripSlashes(p) = <<>> THEN <<"/">>
    ELSE AfterLast(StripSlashes(p), "/")

\* filepath.Ext: the suffix beginning at the final dot of the final element
Ext(p) ==
    LET dots == {i \in Positions(p, ".") : \A j \in i..Len(p) : p[j] # "/"}
    IN IF dots = {} THEN <<>> ELSE SubSeq(p, SetMax(dots), Len(p))

\* filepath.Join of a directory and a name
Join(d, n) == d \o <<"/">> \o n

\* filepath.Rel(base, target) for a target at or below base (the only calls made)
Rel(base, target) ==
    IF target = base THEN <<".">>
    ELSE SubSeq(target, Len(base) + 2, Len(target))

\* bufio.Scanner with ScanLines: the lines of s, without a final empty line
RECURSIVE SplitLines(_)
SplitLines(s) ==
    IF s = <<>> THEN <<>>
    ELSE IF Positions(s, NL) = {} THEN <<s>>
    ELSE LET k == SetMin(Positions(s, NL))
         IN <<SubSeq(s, 1, k - 1)>> \o SplitLines(SubSeq(s, k + 1, Len(s)))

----------------------------------------------------------------------------
(* internal/repo/repo_handler.go *)

GithubPrefix == <<"h","t","t","p","s",":","/","/","g","i","t","h","u","b",".","c","o","m","/">>
GitlabPrefix == <<"h","t","t","p","s",":","/","/","g","i","t","l","a","b",".","c","o","m","/">>

\* the URL validation of CloneRepo
AllowedHost(url) == HasPrefix(url, GithubPrefix) \/ HasPrefix(url, GitlabPrefix)

\* the name os.MkdirTemp gives the directory (one fixed name stands for the random one)
TempName == <<"/", "t">>

\* CloneRepo(repoURL): mkOk is whether os.MkdirTemp succeeds, cloneOk whether
\* git.PlainClone succeeds. Returns the handler's field, the number of directories
\* created, whether the clone ran, the returned path and the error.
CloneRepo(url, mkOk, cloneOk) ==
    IF ~mkOk
      THEN [tempDir |-> <<>>, made |-> 0, cloned |-> FALSE, path |-> <<>>, err |-> TRUE]
    ELSE IF ~AllowedHost(url)
      THEN [tempDir |-> TempName, made |-> 1, cloned |-> FALSE, path |-> <<>>, err |-> TRUE]
    ELSE IF ~cloneOk
      THEN [tempDir |-> TempName, made |-> 1, cloned |-> TRUE, path |-> <<>>, err |-> TRUE]
    ELSE [tempDir |-> TempName, made |-> 1, cloned |-> TRUE, path |-> TempName, err |-> FALSE]

DotGit == <<".", "g", "i", "t">>

\* stands for fmt.Sprintf("repo-%s", time.Now().Format(...))
TimestampName == <<"r", "e", "p", "o", "-">>

\* GetRepoName(repoURL)
GetRepoName(url) ==
    LET u == TrimSuffix(url, DotGit)
    IN IF SplitCount(u, "/") < 2 THEN TimestampName ELSE AfterLast(u, "/")

----------------------------------------------------------------------------
(* internal/content/content_processor.go: GetFiles *)

\* byte order of the characters that occur in file names (sort.Strings in filepath.Walk)
Ascii == <<".", "/", "0", "1", "2", "3", "4", "5", "6", "7", "8", "9", "_", "a", "b", "c", "d", "e", "f", "g", "h", "i",
           "j", "k", "l", "m", "n", "o", "p", "q", "r", "s", "t", "u", "v", "w", "x",
           "y", "z">>
Ord(c) == CHOOSE i \in 1..Len(Ascii) : Ascii[i] = c

\* a < b as Go compares strings
RECURSIVE LessStr(_, _)
LessStr(a, b) ==
    IF b = <<>> THEN FALSE
    ELSE IF a = <<>> THEN TRUE
    ELSE IF Head(a) # Head(b) THEN Ord(Head(a)) < Ord(Head(b))
    ELSE LessStr(Tail(a), Tail(b))

\* the entries of a set of nodes in lexical order of their paths (readDirNames sorts)
RECURSIVE SortNodes(_)
SortNodes(S) ==
    IF S = {} THEN <<>>
    ELSE LET m == CHOOSE n \in S : \A o \in S \ {n} : LessStr(n.path, o.path)
         IN <<m>> \o SortNodes(S \ {m})

\* the directory entries of dir on disk d
Children(d, dir) ==
    {n \in d.nodes : /\ HasPrefix(n.path, dir \o <<"/">>)
                     /\ Len(n.path) > Len(dir) + 1
                     /\ \A k \in (Len(dir) + 2)..Len(n.path) : n.path[k] # "/"}

\* the processor NewContentProcessor builds from the flags (the flags are never nil,
\* so the nil defaults of NewContentProcessor are not taken)
NewContentProcessor(path, inc, exc, types) ==
    [repoPath |-> path, includeDirs |-> inc, excludeDirs |-> exc, fileTypes |-> types]

\* the directory branch of the walk callback: "skip" for filepath.SkipDir, else "nil"
DirDecisionSkipExcludeOnlyAtTop(p, node) ==
    IF /\ \E i \in 1..Len(p.excludeDirs) : Base(node.path) = p.excludeDirs[i]
       /\ Positions(Rel(p.repoPath, node.path), "/") = {}
      THEN "skip"
    ELSE IF Len(p.includeDirs) > 0
            /\ Rel(p.repoPath, node.path) # <<".">>
            /\ ~\E i \in 1..Len(p.includeDirs) :
                   HasPrefix(Rel(p.repoPath, node.path), p.includeDirs[i])
      THEN "skip"
    ELSE "nil"

DirDecision(p, node) ==
    IF \E i \in 1..Len(p.excludeDirs) : Base(node.path) = p.excludeDirs[i]
      THEN "skip"
    ELSE IF Len(p.includeDirs) > 0
            /\ Rel(p.repoPath, node.path) # <<".">>
            /\ ~\E i \in 1..Len(p.includeDirs) :
                   HasPrefix(Rel(p.repoPath, node.path), p.includeDirs[i])
      THEN "skip"
    ELSE "nil"

\* the file branch of the walk callback: whether the path is appended to files
FileSelected(p, node) ==
    \E i \in 1..Len(p.fileTypes) : HasSuffix(node.path, p.fileTypes[i])

\* the callback handed to filepath.Walk: ioErr is the err argument
WalkFn(p, node, ioErr) ==
    IF ioErr THEN "err"
    ELSE IF node.dir THEN DirDecision(p, node)
    ELSE IF FileSelected(p, node) THEN "add"
    ELSE "nil"

\* filepath.walk: the callback on the node, then on its sorted entries.
\* Returns the files collected so far and "nil", "skip" (SkipDir) or "err".
RECURSIVE walk(_, _, _, _)
RECURSIVE walkNames(_, _, _, _)
walk(d, p, node, acc) ==
    IF ~node.dir
      THEN LET r == WalkFn(p, node, FALSE)
           IN IF r = "add" THEN [files |-> Append(acc, node.path), st |-> "nil"]
              ELSE [files |-> acc, st |-> r]
    ELSE LET ioErr == node.path \in d.unreadable
             r == WalkFn(p, node, ioErr)
         IN IF ioErr \/ r # "nil" THEN [files |-> acc, st |-> r]
            ELSE walkNames(d, p, SortNodes(Children(d, node.path)), acc)

walkNames(d, p, names, acc) ==
    IF names = <<>> THEN [files |-> acc, st |-> "nil"]
    ELSE LET r == walk(d, p, Head(names), acc)
         IN IF r.st = "err" \/ (r.st = "skip" /\ ~Head(names).dir) THEN r
            ELSE walkNames(d, p, Tail(names), r.files)

\* the node of the repository root
RootNode(p) == [path |-> p.repoPath, dir |-> TRUE]

\* GetFiles: the files and whether an error is returned
GetFiles(d, p) ==
    LET r == walk(d, p, RootNode(p), <<>>)
    IN IF r.st = "err" THEN [files |-> <<>>, err |-> TRUE]
       ELSE [files |-> r.files, err |-> FALSE]

----------------------------------------------------------------------------
(* internal/content/content_processor.go: ProcessFile *)

\* \w of the regular expressions
WordChars ==
    {"0", "1", "2", "3", "4", "5", "6", "7", "8", "9", "_",
     "a", "b", "c", "d", "e", "f", "g", "h", "i", "j", "k", "l", "m",
     "n", "o", "p", "q", "r", "s", "t", "u", "v", "w", "x", "y", "z",
     "A", "B", "C", "D", "E", "F", "G", "H", "I", "J", "K", "L", "M",
     "N", "O", "P", "Q", "R", "S", "T", "U", "V", "W", "X", "Y", "Z"}

\* \s of the regular expressions: [\t\n\f\r ]
ReSpace == {"\t", NL, "\f", "\r", " "}

\* the length of the longest run of characters of set C that starts at position i
RunLen(s, i, C) ==
    LET stops == {j \in i..Len(s) : s[j] \notin C}
    IN IF stops = {} THEN (IF i > Len(s) THEN 0 ELSE Len(s) - i + 1)
       ELSE SetMin(stops) - i

\* the length of the longest run of characters other than newline from position i
DotRunLen(s, i) ==
    LET stops == {j \in i..Len(s) : s[j] = NL}
    IN IF stops = {} THEN (IF i > Len(s) THEN 0 ELSE Len(s) - i + 1)
       ELSE SetMin(stops) - i

\* whether text t occurs in s at position i
At(s, i, t) == i >= 1 /\ i + Len(t) - 1 <= Len(s) /\ SubSeq(s, i, i + Len(t) - 1) = t

\* a nil Embedding slice
NoEmbedding == [nil |-> TRUE, vec |-> <<>>]

TextLang == <<"t", "e", "x", "t">>
\* the backquote character (a string literal cannot hold one)
BQ == "BQ"
Fence == <<BQ, BQ, BQ>>

\* titleRegex (?m)^#\s+(.+)$ at position i: \s+ is greedy and gives back characters
\* until (.+) can take one; (.+) then runs to the end of its line
TitleWs(s, i) ==
    {k \in 1..RunLen(s, i + 1, ReSpace) : i + 1 + k <= Len(s) /\ s[i + 1 + k] # NL}
TitleMatchAt(s, i) ==
    /\ (i = 1 \/ s[i - 1] = NL)
    /\ s[i] = "#"
    /\ TitleWs(s, i) # {}
TitleGroup(s, i) ==
    LET start == i + 1 + SetMax(TitleWs(s, i))
    IN SubSeq(s, start, start + DotRunLen(s, start) - 1)

\* title of processMarkdown: FindStringSubmatch takes the leftmost match
MarkdownTitle(content, filePath) ==
    LET hits == {i \in 1..Len(content) : TitleMatchAt(content, i)}
    IN IF hits = {} THEN Base(filePath) ELSE TitleGroup(content, SetMin(hits))

NoDescription == <<"N", "o", " ", "d", "e", "s", "c", "r", "i", "p", "t", "i", "o", "n", " ", "a", "v", "a", "i", "l", "a", "b", "l", "e">>

\* description of processMarkdown: the first non-empty line that does not start with #
MarkdownDescription(content) ==
    LET lines == SplitLines(content)
        ok == {i \in 1..Len(lines) : lines[i] # <<>> /\ ~HasPrefix(lines[i], <<"#">>)}
    IN IF ok = {} THEN NoDescription ELSE TrimSpace(lines[SetMin(ok)])

\* codeBlockRegex, three backquotes (\w+)?\n(.*?)\n three backquotes, at position i.
\* BlockTag: the lengths (\w+)? may take (greedy, the longest first);
\* BlockEnds: where the lazy body (.*?) may end; "." does not match a newline.
BlockTag(s, i) == {k \in 0..RunLen(s, i + 3, WordChars) : At(s, i + 3 + k, <<NL>>)}
BlockEnds(s, p) ==
    {e \in p..Len(s) : /\ \A k \in p..(e - 1) : s[k] # NL
                       /\ At(s, e, <<NL>> \o Fence)}
BlockMatchAt(s, i) ==
    /\ At(s, i, Fence)
    /\ BlockTag(s, i) # {}
    /\ BlockEnds(s, i + 4 + SetMax(BlockTag(s, i))) # {}

\* the submatches and end of the match at i
BlockMatch(s, i) ==
    LET k == SetMax(BlockTag(s, i))
        p == i + 4 + k
        e == SetMin(BlockEnds(s, p))
    IN [tag |-> SubSeq(s, i + 3, i + 2 + k), body |-> SubSeq(s, p, e - 1), end |-> e + 3]

\* FindAllStringSubmatch(content, -1): successive non-overlapping leftmost matches
RECURSIVE FindAllBlocks(_, _)
FindAllBlocks(s, from) ==
    LET hits == {i \in from..Len(s) : BlockMatchAt(s, i)}
    IN IF hits = {} THEN <<>>
       ELSE LET m == BlockMatch(s, SetMin(hits))
            IN <<m>> \o FindAllBlocks(s, m.end + 1)

\* the code blocks of processMarkdown
MarkdownBlocks(content) ==
    LET ms == FindAllBlocks(content, 1)
    IN [n \in 1..Len(ms) |->
          [Language |-> IF ms[n].tag # <<>> THEN ms[n].tag ELSE TextLang,
           Code |-> ms[n].body,
           Embedding |-> NoEmbedding]]

processMarkdown(content, filePath) ==
    [Title |-> MarkdownTitle(content, filePath),
     Description |-> MarkdownDescription(content),
     Source |-> filePath,
     Content |-> content,
     CodeBlocks |-> MarkdownBlocks(content),
     Type |-> "markdown"]

\* languageMap of processCode
LanguageOf(fileExt) ==
    CASE fileExt = <<".", "g", "o">> -> <<"g", "o">>
      [] fileExt = <<".", "p", "y">> -> <<"p", "y", "t", "h", "o", "n">>
      [] fileExt = <<".", "j", "s">> -> <<"j", "a", "v", "a", "s", "c", "r", "i", "p", "t">>
      [] fileExt = <<".", "j", "s", "x">> -> <<"j", "s", "x">>
      [] fileExt = <<".", "t", "s">> -> <<"t", "y", "p", "e", "s", "c", "r", "i", "p", "t">>
      [] fileExt = <<".", "t", "s", "x">> -> <<"t", "s", "x">>
      [] fileExt = <<".", "h", "t", "m", "l">> -> <<"h", "t", "m", "l">>
      [] fileExt = <<".", "c", "s", "s">> -> <<"c", "s", "s">>
      [] fileExt = <<".", "j", "s", "o", "n">> -> <<"j", "s", "o", "n">>
      [] fileExt = <<".", "y", "a", "m", "l">> -> <<"y", "a", "m", "l">>
      [] fileExt = <<".", "y", "m", "l">> -> <<"y", "a", "m", "l">>
      [] OTHER -> TextLang

\* the first match of open(.*?)close, "." not matching a newline: [found, group]
FirstDelimited(s, open, close) ==
    LET ends(i) == {e \in (i + Len(open))..Len(s) :
                       /\ \A k \in (i + Len(open))..(e - 1) : s[k] # NL
                       /\ At(s, e, close)}
        hits == {i \in 1..Len(s) : At(s, i, open) /\ ends(i) # {}}
    IN IF hits = {} THEN [found |-> FALSE, group |-> <<>>]
       ELSE LET i == SetMin(hits)
            IN [found |-> TRUE, group |-> SubSeq(s, i + Len(open), SetMin(ends(i)) - 1)]

\* the go branch: the leading // lines, blank lines skipped, joined with newlines
RECURSIVE GoComment(_)
GoComment(lines) ==
    IF lines = <<>> THEN <<>>
    ELSE IF HasPrefix(Head(lines), <<"/", "/">>)
      THEN TrimPrefix(Head(lines), <<"/", "/">>) \o <<NL>> \o GoComment(Tail(lines))
    ELSE IF TrimSpace(Head(lines)) = <<>> THEN GoComment(Tail(lines))
    ELSE <<>>

CodeFilePrefix == <<"C", "o", "d", "e", " ", "f", "i", "l", "e", ":", " ">>

\* description of processCode
CodeDescription(content, language, filePath) ==
    LET found ==
          IF language = <<"p", "y", "t", "h", "o", "n">>
            THEN TrimSpace(FirstDelimited(content, <<"\"", "\"", "\"">>, <<"\"", "\"", "\"">>).group)
          ELSE IF language = <<"g", "o">>
            THEN TrimSpace(GoComment(SplitLines(content)))
          ELSE IF language \in {<<"j", "a", "v", "a", "s", "c", "r", "i", "p", "t">>, <<"t", "y", "p", "e", "s", "c", "r", "i", "p", "t">>, <<"j", "s", "x">>, <<"t", "s", "x">>}
            THEN TrimSpace(FirstDelimited(content, <<"/", "*", "*">>, <<"*", "/">>).group)
          ELSE <<>>
    IN IF found = <<>> THEN CodeFilePrefix \o filePath ELSE found

processCode(content, fileExt, filePath) ==
    [Title |-> Base(filePath),
     Description |-> CodeDescription(content, LanguageOf(fileExt), filePath),
     Source |-> filePath,
     Content |-> content,
     CodeBlocks |-> <<[Language |-> LanguageOf(fileExt), Code |-> content,
                       Embedding |-> NoEmbedding]>>,
     Type |-> "code"]

MdExt == <<".", "m", "d">>

\* ProcessFile(filePath) on disk d: the record and whether an error is returned
ProcessFile(d, p, filePath) ==
    IF ~d.data[filePath].ok THEN [err |-> TRUE, rec |-> <<>>]
    ELSE LET text == d.data[filePath].text
             relPath == Rel(p.repoPath, filePath)
         IN [err |-> FALSE,
             rec |-> IF Ext(filePath) = MdExt
                       THEN processMarkdown(text, relPath)
                       ELSE processCode(text, Ext(filePath), relPath)]

----------------------------------------------------------------------------
(* internal/embedding/embedding_service.go *)

\* the character limit of CreateEmbeddings
MaxEmbedChars == 32000

\* the (record, block) indices of a batch in the order the two loops visit them
RECURSIVE BlockIndex(_, _, _)
BlockIndex(cs, i, j) ==
    IF i > Len(cs) THEN <<>>
    ELSE IF j > Len(cs[i].CodeBlocks) THEN BlockIndex(cs, i + 1, 1)
    ELSE <<(<<i, j>>)>> \o BlockIndex(cs, i, j + 1)

\* the input sent for a code block
EmbeddingInput(code) ==
    IF Len(code) > MaxEmbedChars THEN SubSeq(code, 1, MaxEmbedChars) ELSE code

\* []float32 to []float64, element by element (the widening keeps every value)
ToFloat64(v) == [k \in 1..Len(v) |-> v[k]]

\* contents[i].CodeBlocks[j].Embedding = e
SetEmbedding(cs, i, j, e) == [cs EXCEPT ![i].CodeBlocks[j].Embedding = e]

\* the loops of CreateEmbeddings over the blocks at pos, resp being the answers of the
\* remote service to the requests in the order they are issued.
\* Returns the slice as the loops leave it, the error and the requests issued.
RECURSIVE AnnotateNoSkip(_, _, _, _)
AnnotateNoSkip(cs, pos, resp, reqs) ==
    IF pos = <<>> \/ resp = <<>> THEN [arg |-> cs, err |-> FALSE, reqs |-> reqs]
    ELSE LET i == Head(pos)[1]
             j == Head(pos)[2]
             code == cs[i].CodeBlocks[j].Code
             r == Head(resp)
             req == [i |-> i, j |-> j, input |-> EmbeddingInput(code), ok |-> r.ok, data |-> r.data]
         IN IF ~r.ok THEN [arg |-> cs, err |-> TRUE, reqs |-> Append(reqs, req)]
            ELSE IF Len(r.data) > 0
              THEN AnnotateNoSkip(SetEmbedding(cs, i, j, [nil |-> FALSE, vec |-> ToFloat64(r.data[1])]),
                                  Tail(pos), Tail(resp), Append(reqs, req))
            ELSE AnnotateNoSkip(cs, Tail(pos), Tail(resp), Append(reqs, req))

RECURSIVE Annotate(_, _, _, _)
Annotate(cs, pos, resp, reqs) ==
    IF pos = <<>> THEN [arg |-> cs, err |-> FALSE, reqs |-> reqs]
    ELSE LET i == Head(pos)[1]
             j == Head(pos)[2]
             code == cs[i].CodeBlocks[j].Code
             r == Head(resp)
             req == [i |-> i, j |-> j, input |-> EmbeddingInput(code), ok |-> r.ok, data |-> r.data]
         IN IF code = <<>> THEN Annotate(cs, Tail(pos), resp, reqs)
            ELSE IF ~r.ok THEN [arg |-> cs, err |-> TRUE, reqs |-> Append(reqs, req)]
            ELSE IF Len(r.data) > 0
              THEN Annotate(SetEmbedding(cs, i, j, [nil |-> FALSE, vec |-> ToFloat64(r.data[1])]),
                            Tail(pos), Tail(resp), Append(reqs, req))
            ELSE Annotate(cs, Tail(pos), Tail(resp), Append(reqs, req))

\* CreateEmbeddings(contents): arg is the caller's slice after the call (the loops
\* write through the shared backing array), ret the returned slice (nil on error)
CreateEmbeddings(cs, resp) ==
    LET r == Annotate(cs, BlockIndex(cs, 1, 1), resp, <<>>)
    IN [arg |-> r.arg,
        ret |-> IF r.err THEN [nil |-> TRUE, recs |-> <<>>] ELSE [nil |-> FALSE, recs |-> r.arg],
        err |-> r.err,
        reqs |-> r.reqs]

\* the number of requests a call on cs can issue
NonEmptyBlocks(cs) ==
    Len(SelectSeq(BlockIndex(cs, 1, 1), LAMBDA q : cs[q[1]].CodeBlocks[q[2]].Code # <<>>))

----------------------------------------------------------------------------
(* internal/formatter/doc_formatter.go *)

UpperCase == <<"A", "B", "C", "D", "E", "F", "G", "H", "I", "J", "K", "L", "M", "N", "O", "P", "Q", "R", "S", "T", "U", "V", "W", "X", "Y", "Z">>
LowerCase == <<"a", "b", "c", "d", "e", "f", "g", "h", "i", "j", "k", "l", "m", "n", "o", "p", "q", "r", "s", "t", "u", "v", "w", "x", "y", "z">>

\* strings.ToLower on one character
ToLowerChar(c) ==
    IF \E k \in 1..Len(UpperCase) : UpperCase[k] = c
      THEN LowerCase[CHOOSE k \in 1..Len(UpperCase) : UpperCase[k] = c]
      ELSE c

\* the characters slugify deletes
SlugDropped == {".", ",", ":", ";", "!", "?", "(", ")", "[", "]", "{", "}"}

\* slugify(s)
RECURSIVE slugify(_)
slugify(s) ==
    IF s = <<>> THEN <<>>
    ELSE LET c == ToLowerChar(Head(s))
         IN IF c = " " THEN <<"-">> \o slugify(Tail(s))
            ELSE IF c \in SlugDropped THEN slugify(Tail(s))
            ELSE <<c>> \o slugify(Tail(s))

\* FormatDocs(contents, repoURL, repoName): the document, as the parts written into it
\* in order (the header without its timestamp, the table of contents, the sections)
FormatDocs(cs, url, name) ==
    [header |-> [name |-> name, repository |-> url],
     toc |-> [i \in 1..Len(cs) |-> [n |-> i, title |-> cs[i].Title, slug |-> slugify(cs[i].Title)]],
     sections |-> [i \in 1..Len(cs) |->
                     [n |-> i, title |-> cs[i].Title, source |-> cs[i].Source,
                      description |-> cs[i].Description,
                      blocks |-> [j \in 1..Len(cs[i].CodeBlocks) |->
                                    [n |-> j, language |-> cs[i].CodeBlocks[j].Language,
                                     code |-> cs[i].CodeBlocks[j].Code]]]]]

----------------------------------------------------------------------------
(* main.go: the flags and the inputs of a run *)

\* the default of --file-types
DefaultFileTypes ==
    <<<<".", "m", "d">>,
      <<".", "g", "o">>,
      <<".", "j", "s">>,
      <<".", "j", "s", "x">>,
      <<".", "t", "s">>,
      <<".", "t", "s", "x">>,
      <<".", "h", "t", "m", "l">>,
      <<".", "c", "s", "s">>,
      <<".", "j", "s", "o", "n">>,
      <<".", "y", "a", "m", "l">>,
      <<".", "y", "m", "l">>>>

\* the default of --exclude-dirs
DefaultExcludeDirs ==
    <<<<"n", "o", "d", "e", "_", "m", "o", "d", "u", "l", "e", "s">>,
      <<".", "g", "i", "t">>,
      <<"_", "_", "p", "y", "c", "a", "c", "h", "e", "_", "_">>,
      <<"v", "e", "n", "v">>,
      <<".", "v", "e", "n", "v">>>>

\* values of --repo
RepoURLs ==
    {GithubPrefix \o <<"u", "/", "r">>,
     GitlabPrefix \o <<"u", "/", "r", ".", "g", "i", "t">>,
     <<"h", "t", "t", "p", "s", ":", "/", "/", "g", "i", "t", "h", "u", "b", ".", "c", "o", "m">>,
     <<"h", "t", "t", "p", ":", "/", "/", "g", "i", "t", "h", "u", "b", ".", "c", "o", "m", "/", "u", "/", "r">>,
     <<"h", "t", "t", "p", "s", ":", "/", "/", "b", "i", "t", "b", "u", "c", "k", "e", "t", ".", "o", "r", "g", "/", "u", "/", "r">>}

\* values of --include-dirs and --exclude-dirs in a run of the whole pipeline
PipeIncludes == {<<>>, <<(<<"s">>)>>}
PipeExcludes == {DefaultExcludeDirs, <<>>}

\* a file's state on disk: readable with a text, or not readable
Readable(text) == [ok |-> TRUE, text |-> text]
Unreadable == [ok |-> FALSE, text |-> <<>>]

Dir(path) == [path |-> path, dir |-> TRUE]
File(path) == [path |-> path, dir |-> FALSE]

EmptyDisk == [nodes |-> {}, data |-> [f \in {} |-> Unreadable], unreadable |-> {}]

\* the number of markdown files at the root of the cloned work tree
MaxDocs == 2

\* the work tree a clone leaves under the temporary directory, in a pipeline run:
\* .git/config, the markdown files 1.md .. MaxDocs.md, and s/b.go
PathGit == TempName \o <<"/", ".", "g", "i", "t">>
PathGitConfig == TempName \o <<"/", ".", "g", "i", "t", "/", "c", "o", "n", "f", "i", "g">>
PathSrc == TempName \o <<"/", "s">>
PathMainGo == TempName \o <<"/", "s", "/", "b", ".", "g", "o">>
Digits == <<"1", "2", "3", "4", "5", "6", "7", "8", "9">>
PathDoc(k) == TempName \o <<"/", Digits[k]>> \o MdExt
DocPaths == {PathDoc(k) : k \in 1..MaxDocs}

PipeMarkdown ==
    {<<"#", " ", "T", NL, BQ, BQ, BQ, "g", "o", NL, "x", NL, BQ, BQ, BQ>>,
     <<BQ, BQ, BQ, NL, NL, BQ, BQ, BQ, NL, BQ, BQ, BQ, "a", NL, "y", NL, BQ, BQ, BQ>>,
     <<"p">>}
PipeGo == {<<"/", "/", "c", NL, "x">>, <<>>}

PipeSnapshots ==
    {[nodes |-> {Dir(TempName), Dir(PathGit), File(PathGitConfig), Dir(PathSrc), File(PathMainGo)}
                  \cup {File(f) : f \in DocPaths},
      data |-> (PathGitConfig :> Readable(<<"c">>)) @@ (PathMainGo :> b) @@ a,
      unreadable |-> u] :
        a \in [DocPaths -> {Unreadable} \cup {Readable(t) : t \in PipeMarkdown}],
        b \in {Unreadable} \cup {Readable(t) : t \in PipeGo},
        u \in {{}, {PathSrc}}}

\* answers of the remote embedding service: an error, no data entries, one vector
Responses ==
    {[ok |-> FALSE, data |-> <<>>],
     [ok |-> TRUE, data |-> <<>>],
     [ok |-> TRUE, data |-> <<(<<1, 2>>)>>]}

NoOutput == [written |-> FALSE, doc |-> <<>>]
NilRecords == [nil |-> TRUE, recs |-> <<>>]

----------------------------------------------------------------------------
(* main.go: main and generateDocs *)

\* fmt.Println of the error, then os.Exit(1)
Exit(kind) ==
    /\ pc' = "exit"
    /\ err' = kind
    /\ exitCode' = 1

\* main: the credential check, then cobra's required --repo flag, then the run
mainNoKeyCheck ==
    /\ pc = "main"
    /\ IF ~repoFlag
         THEN Exit("config")
         ELSE pc' = "clone" /\ UNCHANGED <<err, exitCode>>
    /\ UNCHANGED <<apiKey, repoFlag, repoURL, includeDirs, excludeDirs, fileTypes, tempDir,
                   tempDirsMade, repoPath, disk, files, idx, contents, indexed, requests,
                   calls, output>>

main ==
    /\ pc = "main"
    /\ IF ~apiKey \/ ~repoFlag
         THEN Exit("config")
         ELSE pc' = "clone" /\ UNCHANGED <<err, exitCode>>
    /\ UNCHANGED <<apiKey, repoFlag, repoURL, includeDirs, excludeDirs, fileTypes, tempDir,
                   tempDirsMade, repoPath, disk, files, idx, contents, indexed, requests,
                   calls, output>>

\* generateDocs: NewRepoHandler, CloneRepo and the exit on its error
generateDocsClone ==
    /\ pc = "clone"
    /\ \E mkOk \in BOOLEAN, cloneOk \in BOOLEAN, snap \in PipeSnapshots :
         LET r == CloneRepo(repoURL, mkOk, cloneOk)
         IN /\ tempDir' = r.tempDir
            /\ tempDirsMade' = tempDirsMade + r.made
            /\ disk' = IF r.cloned /\ ~r.err THEN snap ELSE disk
            /\ IF r.err
                 THEN Exit("fetch") /\ UNCHANGED repoPath
                 ELSE pc' = "select" /\ repoPath' = r.path /\ UNCHANGED <<err, exitCode>>
    /\ UNCHANGED <<apiKey, repoFlag, repoURL, includeDirs, excludeDirs, fileTypes, files, idx,
                   contents, indexed, requests, calls, output>>

\* the processor generateDocs builds
Processor == NewContentProcessor(repoPath, includeDirs, excludeDirs, fileTypes)

\* generateDocs: NewContentProcessor, GetFiles and the exit on its error
generateDocsSelect ==
    /\ pc = "select"
    /\ LET r == GetFiles(disk, Processor)
       IN IF r.err
            THEN Exit("selection") /\ UNCHANGED <<files, idx, contents>>
            ELSE /\ files' = r.files
                 /\ idx' = 1
                 /\ contents' = <<>>
                 /\ pc' = IF r.files = <<>> THEN "embed" ELSE "process"
                 /\ UNCHANGED <<err, exitCode>>
    /\ UNCHANGED <<apiKey, repoFlag, repoURL, includeDirs, excludeDirs, fileTypes, tempDir,
                   tempDirsMade, repoPath, disk, indexed, requests, calls, output>>

\* generateDocs: one iteration of the loop over files
generateDocsProcessAbortOnError ==
    /\ pc = "process"
    /\ idx <= Len(files)
    /\ LET r == ProcessFile(disk, Processor, files[idx])
       IN IF r.err
            THEN Exit("extraction") /\ UNCHANGED <<contents, idx>>
            ELSE /\ contents' = Append(contents, r.rec)
                 /\ idx' = idx + 1
                 /\ pc' = IF idx + 1 > Len(files) THEN "embed" ELSE "process"
                 /\ UNCHANGED <<err, exitCode>>
    /\ UNCHANGED <<apiKey, repoFlag, repoURL, includeDirs, excludeDirs, fileTypes, tempDir,
                   tempDirsMade, repoPath, disk, files, indexed, requests, calls, output>>

generateDocsProcess ==
    /\ pc = "process"
    /\ idx <= Len(files)
    /\ LET r == ProcessFile(disk, Processor, files[idx])
       IN contents' = IF r.err THEN contents ELSE Append(contents, r.rec)
    /\ idx' = idx + 1
    /\ pc' = IF idx + 1 > Len(files) THEN "embed" ELSE "process"
    /\ UNCHANGED <<apiKey, repoFlag, repoURL, includeDirs, excludeDirs, fileTypes, tempDir,
                   tempDirsMade, repoPath, disk, files, indexed, requests, calls, output,
                   err, exitCode>>

\* generateDocs: NewEmbeddingService, CreateEmbeddings and the exit on its error
generateDocsEmbedIgnoreError ==
    /\ pc = "embed"
    /\ calls = 0
    /\ \E resp \in [1..NonEmptyBlocks(contents) -> Responses] :
         LET r == CreateEmbeddings(contents, resp)
         IN /\ contents' = r.arg
            /\ indexed' = r.ret
            /\ requests' = requests \o r.reqs
    /\ calls' = calls + 1
    /\ pc' = "format"
    /\ UNCHANGED <<apiKey, repoFlag, repoURL, includeDirs, excludeDirs, fileTypes, tempDir,
                   tempDirsMade, repoPath, disk, files, idx, output, err, exitCode>>

generateDocsEmbed ==
    /\ pc = "embed"
    /\ calls = 0
    /\ \E resp \in [1..NonEmptyBlocks(contents) -> Responses] :
         LET r == CreateEmbeddings(contents, resp)
         IN /\ contents' = r.arg
            /\ indexed' = r.ret
            /\ requests' = requests \o r.reqs
            /\ IF r.err
                 THEN Exit("annotation")
                 ELSE pc' = "format" /\ UNCHANGED <<err, exitCode>>
    /\ calls' = calls + 1
    /\ UNCHANGED <<apiKey, repoFlag, repoURL, includeDirs, excludeDirs, fileTypes, tempDir,
                   tempDirsMade, repoPath, disk, files, idx, output>>

\* generateDocs: FormatDocs, os.WriteFile and the exit on its error; then main returns
generateDocsWrite ==
    /\ pc = "format"
    /\ \E writeOk \in BOOLEAN :
         IF writeOk
           THEN /\ output' = [written |-> TRUE,
                              doc |-> FormatDocs(indexed.recs, repoURL, GetRepoName(repoURL))]
                /\ pc' = "done"
                /\ exitCode' = 0
                /\ UNCHANGED err
           ELSE Exit("write") /\ UNCHANGED output
    /\ UNCHANGED <<apiKey, repoFlag, repoURL, includeDirs, excludeDirs, fileTypes, tempDir,
                   tempDirsMade, repoPath, disk, files, idx, contents, indexed, requests,
                   calls>>

\* the state of a process that has not started a stage
Fresh ==
    /\ tempDir = <<>>
    /\ tempDirsMade = 0
    /\ repoPath = <<>>
    /\ disk = EmptyDisk
    /\ files = <<>>
    /\ idx = 1
    /\ contents = <<>>
    /\ indexed = NilRecords
    /\ requests = <<>>
    /\ calls = 0
    /\ output = NoOutput
    /\ err = ""
    /\ exitCode = -1

\* the process at the start of main, for every environment and command line
Init ==
    /\ pc = "main"
    /\ apiKey \in BOOLEAN
    /\ repoFlag \in BOOLEAN
    /\ repoURL \in IF repoFlag THEN RepoURLs ELSE {<<>>}
    /\ includeDirs \in PipeIncludes
    /\ excludeDirs \in PipeExcludes
    /\ fileTypes = DefaultFileTypes
    /\ Fresh

Next ==
    \/ main
    \/ generateDocsClone
    \/ generateDocsSelect
    \/ generateDocsProcess
    \/ generateDocsEmbed
    \/ generateDocsWrite

Spec == Init /\ [][Next]_vars

----------------------------------------------------------------------------
(* GetFiles on every tree: the process after a clone, before file selection *)

\* the entries a cloned tree may hold: a.md, n/b.md, s/c.md, s/n/d.md, s/n/s/e.md, s2/f.md
TreeDirs ==
    {TempName \o <<"/", "n">>,
     TempName \o <<"/", "s">>,
     TempName \o <<"/", "s", "/", "n">>,
     TempName \o <<"/", "s", "/", "n", "/", "s">>,
     TempName \o <<"/", "s", "2">>}
TreeFiles ==
    {TempName \o <<"/", "a", ".", "m", "d">>,
     TempName \o <<"/", "n", "/", "b", ".", "m", "d">>,
     TempName \o <<"/", "s", "/", "c", ".", "m", "d">>,
     TempName \o <<"/", "s", "/", "n", "/", "d", ".", "m", "d">>,
     TempName \o <<"/", "s", "/", "n", "/", "s", "/", "e", ".", "m", "d">>,
     TempName \o <<"/", "s", "2", "/", "f", ".", "m", "d">>}

\* filepath.Dir of a path below the root
Parent(path) == SubSeq(path, 1, SetMax(Positions(path, "/")) - 1)

\* every tree: a set of entries that holds the directory of each of its entries
TreeEntries == {Dir(TempName)} \cup {Dir(x) : x \in TreeDirs} \cup {File(x) : x \in TreeFiles}
Trees ==
    {t \in SUBSET TreeEntries :
        /\ Dir(TempName) \in t
        /\ \A n \in t : n.path = TempName \/ Dir(Parent(n.path)) \in t}

SelectSnapshots ==
    {[nodes |-> t,
      data |-> [f \in {n.path : n \in {m \in t : ~m.dir}} |-> Readable(<<"p">>)],
      unreadable |-> {}] : t \in Trees}

SelectIncludes ==
    {<<>>,
     <<<<"s">>>>,
     <<<<"s", "/", "n">>>>,
     <<<<"n">>, <<"s", "2">>>>}
SelectExcludes ==
    {<<>>,
     <<<<"n">>>>,
     <<<<"s", "2">>, <<"n">>>>}

SomeRepo == GithubPrefix \o <<"u", "/", "r">>

\* the state generateDocs is in when CloneRepo has returned a path
Cloned ==
    /\ apiKey = TRUE
    /\ repoFlag = TRUE
    /\ repoURL = SomeRepo
    /\ tempDir = TempName
    /\ tempDirsMade = 1
    /\ repoPath = TempName
    /\ indexed = NilRecords
    /\ requests = <<>>
    /\ calls = 0
    /\ output = NoOutput
    /\ err = ""
    /\ exitCode = -1

InitSelect ==
    /\ pc = "select"
    /\ Cloned
    /\ includeDirs \in SelectIncludes
    /\ excludeDirs \in SelectExcludes
    /\ fileTypes = DefaultFileTypes
    /\ disk \in SelectSnapshots
    /\ files = <<>>
    /\ idx = 1
    /\ contents = <<>>

SpecSelect == InitSelect /\ [][generateDocsSelect]_vars

----------------------------------------------------------------------------
(* ProcessFile on every markdown text: the process with one selected file d/x.md *)

\* longest text built from single characters
MaxSegs == 6
\* most fenced blocks in a rendered text
MaxBlocks == 2

MdChars == {"#", " ", NL, "a"}
CharTexts == UNION {[1..n -> MdChars] : n \in 0..MaxSegs}

\* fenced blocks: a language tag and a body
BlockTags == <<<<"a">>, <<"g", "o">>, <<"c">>, <<"p", "y">>>>
BlockBodies == {<<>>, <<"x">>, <<" ", "x", " ">>, <<"x", NL, " ", "y">>}
Blocks == {[tag |-> BlockTags[k], body |-> b] : k \in 1..Len(BlockTags), b \in BlockBodies}

\* lists of blocks with distinct language tags
BlockLists ==
    {bl \in UNION {[1..n -> Blocks] : n \in 0..MaxBlocks} :
        \A i, j \in 1..Len(bl) : i # j => bl[i].tag # bl[j].tag}

\* a fenced block as markdown text
RenderBlock(b) == Fence \o b.tag \o <<NL>> \o b.body \o <<NL>> \o Fence

\* the blocks one after the other, each opening fence on the line after a closing one
RECURSIVE RenderBlocks(_)
RenderBlocks(bl) ==
    IF bl = <<>> THEN <<>>
    ELSE IF Len(bl) = 1 THEN RenderBlock(bl[1])
    ELSE RenderBlock(bl[1]) \o <<NL>> \o RenderBlocks(Tail(bl))

MarkdownInputs == CharTexts \cup {RenderBlocks(bl) : bl \in BlockLists}

PathSub == TempName \o <<"/", "d">>
PathSubDoc == TempName \o <<"/", "d", "/", "x", ".", "m", "d">>

InitMarkdown ==
    /\ pc = "process"
    /\ Cloned
    /\ includeDirs = <<>>
    /\ excludeDirs = DefaultExcludeDirs
    /\ fileTypes = DefaultFileTypes
    /\ \E text \in MarkdownInputs :
         disk = [nodes |-> {Dir(TempName), Dir(PathSub), File(PathSubDoc)},
                 data |-> (PathSubDoc :> Readable(text)),
                 unreadable |-> {}]
    /\ files = <<PathSubDoc>>
    /\ idx = 1
    /\ contents = <<>>

SpecMarkdown == InitMarkdown /\ [][generateDocsProcess]_vars

----------------------------------------------------------------------------
(* The claims *)

\* C1: when CloneRepo rejects a URL that starts with neither allowed host prefix,
\* no temporary directory has been created or populated by the call.
C1_RejectionPrecedesTempDir ==
    (pc = "exit" /\ err = "fetch" /\ ~AllowedHost(repoURL))
        => (tempDirsMade = 0 /\ tempDir = <<>> /\ disk = EmptyDisk)

SomeRequestFailed == \E k \in 1..Len(requests) : ~requests[k].ok

\* C2: if any embedding request fails, the run ends with a non-zero exit and the output
\* file is never written; the output is written only after CreateEmbeddings has
\* returned without error for the whole batch.
C2_NoDocumentOnEmbeddingFailure ==
    /\ SomeRequestFailed => (pc = "exit" /\ exitCode = 1 /\ output = NoOutput)
    /\ output.written => (calls = 1 /\ ~indexed.nil /\ ~SomeRequestFailed)

\* a run in which the second request of the batch failed
C2_Witness ==
    /\ pc = "exit"
    /\ err = "annotation"
    /\ Len(requests) >= 2
    /\ ~requests[Len(requests)].ok

\* the path of a returned file relative to the repository root
RelFile(f) == Rel(repoPath, f)

\* C3: with includeDirs non-empty, every file GetFiles returns has a relative path that
\* begins with one of the includeDirs entries, files of the root directory included.
C3_FilesUnderIncludePrefix ==
    (pc # "select" /\ err = "" /\ Len(includeDirs) > 0)
        => \A k \in 1..Len(files) :
              \E i \in 1..Len(includeDirs) : HasPrefix(RelFile(files[k]), includeDirs[i])

\* the directories of the walked tree above path: the root and what lies between
AncestorDirs(path) ==
    {SubSeq(path, 1, j - 1) : j \in {q \in Positions(path, "/") : q > Len(repoPath)}}

\* whether path lies beneath a directory whose base name is an excludeDirs entry
UnderExcluded(path) ==
    \E d \in AncestorDirs(path) :
        \E i \in 1..Len(excludeDirs) : AfterLast(d, "/") = excludeDirs[i]

\* C4: no file GetFiles returns lies at any depth beneath a directory whose base name
\* is an excludeDirs entry, whatever includeDirs is.
C4_ExcludedSubtreesPruned ==
    pc # "select" => \A k \in 1..Len(files) : ~UnderExcluded(files[k])

\* GetFiles has returned files of a tree that holds s/n/s/e.md, two levels beneath the
\* excluded directory s/n, with includeDirs non-empty
C4_Witness ==
    /\ pc # "select"
    /\ Len(files) > 0
    /\ Len(includeDirs) > 0
    /\ File(TempName \o <<"/", "s", "/", "n", "/", "s", "/", "e", ".", "m", "d">>) \in disk.nodes
    /\ UnderExcluded(TempName \o <<"/", "s", "/", "n", "/", "s", "/", "e", ".", "m", "d">>)

\* the one file of SpecMarkdown has been processed
Processed == pc = "embed" /\ Len(contents) = 1

\* C5: for a markdown text of N fenced blocks with distinct language tags,
\* processMarkdown returns exactly the N blocks in order, each with its tag and its
\* exact body, also when a body spans several lines and when blocks are consecutive.
C5_FencedBlocksExtracted ==
    Processed =>
        \A bl \in BlockLists :
            contents[1].Content = RenderBlocks(bl) =>
                contents[1].CodeBlocks =
                    [k \in 1..Len(bl) |->
                        [Language |-> bl[k].tag, Code |-> bl[k].body, Embedding |-> NoEmbedding]]

\* a level-1 heading line: "#", then whitespace on the line, then at least one character
HeadingLine(line) == Len(line) >= 3 /\ line[1] = "#" /\ line[2] \in {" ", "\t"}

\* the text of a heading line: what follows the whitespace after "#" (the last
\* character of the line when the line is all whitespace after "#")
HeadingText(line) ==
    LET w == RunLen(line, 2, {" ", "\t"})
    IN IF 1 + w < Len(line) THEN SubSeq(line, 2 + w, Len(line)) ELSE <<line[Len(line)]>>

\* C6: when no line of the markdown text is a level-1 heading, the title is the base
\* name of the file's path; otherwise it is the text of the first such heading.
C6_TitleFromHeadingOrBaseName ==
    Processed =>
        LET lines == SplitLines(contents[1].Content)
            hs == {i \in 1..Len(lines) : HeadingLine(lines[i])}
        IN contents[1].Title =
              IF hs = {} THEN AfterLast(contents[1].Source, "/")
              ELSE HeadingText(lines[SetMin(hs)])

\* no block of cs with empty code carries an embedding
EmptyBlocksBare(cs) ==
    \A i \in 1..Len(cs) : \A j \in 1..Len(cs[i].CodeBlocks) :
        cs[i].CodeBlocks[j].Code = <<>> => cs[i].CodeBlocks[j].Embedding.nil

\* no request of reqs was issued for a block of cs with empty code
NoRequestForEmpty(cs, reqs) ==
    \A k \in 1..Len(reqs) :
        reqs[k].input # <<>> /\ cs[reqs[k].i].CodeBlocks[reqs[k].j].Code # <<>>

\* C7: a code block with empty code has no embedding after CreateEmbeddings, whether
\* the call succeeds or fails, no remote request is issued for it, and applying
\* CreateEmbeddings again (under every sequence of remote answers) leaves it so.
C7_EmptyBlocksNeverEmbedded ==
    /\ EmptyBlocksBare(contents)
    /\ EmptyBlocksBare(indexed.recs)
    /\ NoRequestForEmpty(contents, requests)
    /\ calls >= 1 =>
          \A resp \in [1..NonEmptyBlocks(contents) -> Responses] :
              LET r == CreateEmbeddings(contents, resp)
              IN /\ EmptyBlocksBare(r.arg)
                 /\ EmptyBlocksBare(r.ret.recs)
                 /\ NoRequestForEmpty(contents, r.reqs)

\* CreateEmbeddings has run on a batch that holds a block with empty code and a block
\* that now carries an embedding
C7_Witness ==
    /\ calls = 1
    /\ \E i \in 1..Len(contents) : \E j \in 1..Len(contents[i].CodeBlocks) :
          contents[i].CodeBlocks[j].Code = <<>>
    /\ \E i \in 1..Len(contents) : \E j \in 1..Len(contents[i].CodeBlocks) :
          ~contents[i].CodeBlocks[j].Embedding.nil

\* the files among the first n of files that ProcessFile can read, in order
ReadFiles(n) == SelectSeq(SubSeq(files, 1, n), LAMBDA f : disk.data[f].ok)

\* C8: a ProcessFile failure never ends the run: every selected file is processed, and
\* the records are exactly one per successfully processed file, in the order of files.
C8_FailedFileIsSkipped ==
    /\ pc \notin {"main", "clone", "select", "process"} => idx = Len(files) + 1
    /\ pc = "exit" => err \in {"config", "fetch", "selection", "annotation", "write"}
    /\ pc \notin {"main", "clone", "select"} =>
          /\ Len(contents) = Len(ReadFiles(idx - 1))
          /\ \A k \in 1..Len(contents) : contents[k].Source = RelFile(ReadFiles(idx - 1)[k])

\* a finished run of three selected files of which the second could not be read
C8_Witness ==
    /\ pc = "done"
    /\ Len(files) = 3
    /\ ~disk.data[files[2]].ok
    /\ Len(contents) = 2

\* C9: without the OPENAI_API_KEY credential the process exits with a non-zero code
\* before any stage: no clone or temporary directory, no file selection, no
\* extraction, no embedding request and no output write.
C9_NoStageWithoutCredential ==
    ~apiKey =>
        /\ pc \in {"main", "exit"}
        /\ pc = "exit" => (exitCode = 1 /\ err = "config")
        /\ tempDir = <<>>
        /\ tempDirsMade = 0
        /\ disk = EmptyDisk
        /\ files = <<>>
        /\ contents = <<>>
        /\ requests = <<>>
        /\ calls = 0
        /\ output = NoOutput

\* the process has exited for the missing credential although --repo was given
C9_Witness == ~apiKey /\ repoFlag /\ AllowedHost(repoURL) /\ pc = "exit"

\* C10: when a request fails partway through a batch, no block of the caller's records
\* carries an embedding it did not carry before the call, and the failed request is
\* not retried.
C10_NoPartialAnnotation ==
    [][(pc = "embed" /\ err' = "annotation")
          => /\ contents' = contents
             /\ Cardinality({k \in 1..Len(requests') : ~requests'[k].ok}) = 1]_vars

\* the language and code of the blocks of a record
BareBlocks(rec) ==
    [j \in 1..Len(rec.CodeBlocks) |->
        [Language |-> rec.CodeBlocks[j].Language, Code |-> rec.CodeBlocks[j].Code]]

\* the record ProcessFile built for the k-th readable file
Extracted(k) == ProcessFile(disk, Processor, ReadFiles(Len(files))[k]).rec

\* C11: when CreateEmbeddings returns without error it returns the same number of
\* records in the same order with the same code blocks, and every block with non-empty
\* code carries the vector the remote service returned for it, whatever the answers
\* were, an answer with no data entries included.
C11_EveryNonEmptyBlockEmbedded ==
    (calls = 1 /\ ~indexed.nil) =>
        /\ Len(indexed.recs) = Len(ReadFiles(Len(files)))
        /\ \A i \in 1..Len(indexed.recs) :
              /\ indexed.recs[i].Source = Extracted(i).Source
              /\ BareBlocks(indexed.recs[i]) = BareBlocks(Extracted(i))
              /\ \A j \in 1..Len(indexed.recs[i].CodeBlocks) :
                    indexed.recs[i].CodeBlocks[j].Code # <<>> =>
                        \E k \in 1..Len(requests) :
                            /\ requests[k].i = i
                            /\ requests[k].j = j
                            /\ Len(requests[k].data) > 0
                            /\ indexed.recs[i].CodeBlocks[j].Embedding =
                                  [nil |-> FALSE, vec |-> requests[k].data[1]]

====
